---- MODULE Spec2Model ----
(***************************************************************************)
(* Model of app/main.py: the FastAPI wrapper that configures the process,  *)
(* locates and loads the upstream basecamp_fastmcp.py and oauth_app.py,    *)
(* composes the parent application and mounts the sub-applications.        *)
(*                                                                         *)
(* Strings that the code inspects character by character (URLs, directory  *)
(* names) are sequences of one-character strings.  Request paths are       *)
(* sequences of segments: "/oauth/cb" is <<"oauth", "cb">>.                *)
(* An environment variable is [set |-> BOOLEAN, val |-> string]; an unset  *)
(* variable is [set |-> FALSE, val |-> <<>>].                              *)
(***************************************************************************)
EXTENDS Integers, Sequences, FiniteSets, TLC

VARIABLES
    sysPath,        \* sys.path: ordered list of search roots
    files,          \* the files that exist (os.path.isfile)
    environ,        \* os.environ
    environ0,       \* os.environ at process start (history)
    cwd,            \* current working directory
    token_file,     \* token_storage.TOKEN_FILE
    pc,             \* position of the module-level code / server phase
    error,          \* the exception that aborted startup, "none" otherwise
    mcp_instance,   \* global mcp_instance
    mcp_app,        \* global mcp_app
    app,            \* global app (the parent FastAPI application)
    oauth_app,      \* global oauth_app
    calls,          \* number of calls of each factory of mcp_instance
    log,            \* records emitted through logger
    stages,         \* startup stages executed so far (history)
    sub_lifespan,   \* enters / exits of mcp_app.router.lifespan_context
    response,       \* the answer to the last request served
    find_result     \* last call of _find_upstream_file and its result

vars == <<sysPath, files, environ, environ0, cwd, token_file, pc, error,
          mcp_instance, mcp_app, app, oauth_app, calls, log, stages,
          sub_lifespan, response, find_result>>

(***************************************************************************)
(* Bounds                                                                  *)
(***************************************************************************)
NumRoots == 2       \* distinct search-root directories
MaxRoots == 2       \* longest sys.path
MaxUrlLen == 3      \* longest PUBLIC_BASE_URL

Roots == 1..NumRoots
Chars == {"a", "/"}

RECURSIVE SeqsUpTo(_, _)
SeqsUpTo(S, n) ==
    IF n = 0 THEN {<<>>}
    ELSE LET shorter == SeqsUpTo(S, n - 1)
         IN  shorter \cup {Append(s, x) : s \in {t \in shorter : Len(t) = n - 1}, x \in S}

(***************************************************************************)
(* Environment                                                             *)
(***************************************************************************)
EnvNames == {"BASECAMP_REDIRECT_URI", "PUBLIC_BASE_URL", "TOKEN_DIR", "TOKEN_FILENAME"}
Unset == [set |-> FALSE, val |-> <<>>]
Val(s) == [set |-> TRUE, val |-> s]

\* os.environ.get(name): None when unset; None and "" are both falsy
Truthy(v) == v.set /\ v.val # <<>>
\* os.environ.get(name, default)
GetOr(env, name, default) == IF env[name].set THEN env[name].val ELSE default

DefaultTokenDir == <<"/", "a", "p", "p", "/", "d", "a", "t", "a">>
DefaultTokenFilename == <<"o", "a", "u", "t", "h", "_", "t", "o", "k", "e", "n", "s", ".", "j", "s", "o", "n">>
CallbackSuffix == <<"/", "o", "a", "u", "t", "h", "/", "a", "u", "t", "h", "/", "c", "a", "l", "l", "b", "a", "c", "k">>

\* a plausible slip: removes one trailing "/" only
RStripOneSlash(s) ==
    IF s # <<>> /\ s[Len(s)] = "/" THEN SubSeq(s, 1, Len(s) - 1) ELSE s

\* str.rstrip("/"): removes every trailing "/"
RECURSIVE RStripSlash(_)
RStripSlash(s) ==
    IF s = <<>> THEN s
    ELSE IF s[Len(s)] = "/" THEN RStripSlash(SubSeq(s, 1, Len(s) - 1))
    ELSE s

\* a plausible slip: the explicit override is not consulted
RedirectUriAlwaysDerived(env) ==
    IF ~Truthy(env["PUBLIC_BASE_URL"]) THEN env
    ELSE [env EXCEPT !["BASECAMP_REDIRECT_URI"] =
              Val(RStripSlash(env["PUBLIC_BASE_URL"].val) \o CallbackSuffix)]

\* _configure_redirect_uri as a function of os.environ
RedirectUriConfigured(env) ==
    IF Truthy(env["BASECAMP_REDIRECT_URI"]) THEN env
    ELSE IF ~Truthy(env["PUBLIC_BASE_URL"]) THEN env
    ELSE [env EXCEPT !["BASECAMP_REDIRECT_URI"] =
              Val(RStripSlash(env["PUBLIC_BASE_URL"].val) \o CallbackSuffix)]

\* os.path.join(a, b) for two components
PathJoin(a, b) ==
    IF b # <<>> /\ b[1] = "/" THEN b
    ELSE IF a = <<>> \/ a[Len(a)] = "/" THEN a \o b
    ELSE a \o <<"/">> \o b

(***************************************************************************)
(* Module resolution                                                       *)
(***************************************************************************)
FallbackDir == "Basecamp-MCP-Server"
McpFile == "basecamp_fastmcp.py"
OauthFile == "oauth_app.py"
FileNames == {McpFile, OauthFile}
Candidate(base, sub, filename) == [root |-> base, sub |-> sub, name |-> filename]
AllCandidates == {Candidate(r, s, f) : r \in Roots, s \in {"", FallbackDir}, f \in FileNames}
NotFound == [root |-> 0, sub |-> "", name |-> "RuntimeError"]

\* a plausible slip: the fallback subdirectory is tried before the direct path
RECURSIVE FindFromFallbackFirst(_, _, _, _)
FindFromFallbackFirst(path, fs, filename, i) ==
    IF i > Len(path) THEN NotFound
    ELSE IF Candidate(path[i], FallbackDir, filename) \in fs
         THEN Candidate(path[i], FallbackDir, filename)
    ELSE IF Candidate(path[i], "", filename) \in fs
         THEN Candidate(path[i], "", filename)
    ELSE FindFromFallbackFirst(path, fs, filename, i + 1)

\* the loop of _find_upstream_file from the i-th entry of sys.path on
RECURSIVE FindFrom(_, _, _, _)
FindFrom(path, fs, filename, i) ==
    IF i > Len(path) THEN NotFound
    ELSE LET candidate == Candidate(path[i], "", filename)
             candidate2 == Candidate(path[i], FallbackDir, filename)
         IN  IF candidate \in fs THEN candidate
             ELSE IF candidate2 \in fs THEN candidate2
             ELSE FindFrom(path, fs, filename, i + 1)

FindUpstreamFile(path, fs, filename) == FindFrom(path, fs, filename, 1)

(***************************************************************************)
(* Objects of the upstream package                                         *)
(***************************************************************************)
\* attributes of an MCP instance that the wrapper probes with hasattr
Features == {"http_app", "streamable_http_app", "__call__", "routes"}
NoneObj == [defined |-> FALSE, attrs |-> {}]
Instances == [defined : {TRUE}, attrs : SUBSET Features]

\* attribute names searched in the loaded FastMCP module, in this order
InstanceNames == <<"mcp", "server", "app">>
\* a loaded module: for each searched name, None or an object
McpModules == [{"mcp", "server", "app"} -> Instances \cup {NoneObj}]

\* an ASGI sub-application: where it came from, whether it has a router and
\* whether that router has a lifespan_context, and the request paths for
\* which it has a route of its own
RouterKinds == {"none", "no_lifespan", "lifespan"}
SubPaths == {<<"health">>, <<"oauth", "cb">>}
NoSubApp == [defined |-> FALSE, origin |-> "none", router |-> "none", served |-> {}]
SubApp(origin, router, served) ==
    [defined |-> TRUE, origin |-> origin, router |-> router, served |-> served]

\* a plausible slip: any object is taken to be an ASGI application
DirectlyServableAny(inst) == TRUE

\* hasattr(mcp_instance, "__call__") and hasattr(mcp_instance, "routes")
DirectlyServable(inst) == "__call__" \in inst.attrs /\ "routes" \in inst.attrs

\* a plausible slip: the sub-application's lifespan is never looked for
HasLifespanHookNever(a) == FALSE

\* hasattr(mcp_app, "router") and hasattr(mcp_app.router, "lifespan_context")
HasLifespanHook(a) == a.router # "none" /\ a.router = "lifespan"

(***************************************************************************)
(* Routing of the parent application (Starlette Router: routes are tried   *)
(* in registration order, the first full match handles the request)        *)
(***************************************************************************)
Methods == {"GET", "POST"}
ReqPaths == {<<"health">>, <<"oauth", "cb">>, <<"oauth", "auth", "callback">>, <<"mcp">>}
NoApp == [constructed |-> FALSE, routes |-> <<>>]
GetRoute(path, endpoint) ==
    [kind |-> "route", path |-> path, methods |-> {"GET"}, endpoint |-> endpoint]
Mount(prefix, endpoint) ==
    [kind |-> "mount", path |-> prefix, methods |-> Methods, endpoint |-> endpoint]

HealthRoute == GetRoute(<<"health">>, "health")
DebugInfoRoute == GetRoute(<<"debug", "info">>, "debug_info")
McpInfoRoute == GetRoute(<<"mcp", "info">>, "mcp_info")
OauthMount == Mount(<<"oauth">>, "oauth_app")
RootMount == Mount(<<>>, "mcp_app")

Matches(route, method, path) ==
    IF route.kind = "route"
    THEN IF path # route.path THEN "NONE"
         ELSE IF method \in route.methods THEN "FULL" ELSE "PARTIAL"
    ELSE IF Len(path) > Len(route.path) /\ SubSeq(path, 1, Len(route.path)) = route.path
         THEN "FULL" ELSE "NONE"

\* index of the route that handles the request and the kind of match
RECURSIVE RouteFrom(_, _, _, _, _)
RouteFrom(routes, method, path, i, partial) ==
    IF i > Len(routes)
    THEN IF partial # 0 THEN [route |-> partial, match |-> "PARTIAL"]
         ELSE [route |-> 0, match |-> "NONE"]
    ELSE LET m == Matches(routes[i], method, path)
         IN  IF m = "FULL" THEN [route |-> i, match |-> "FULL"]
             ELSE IF m = "PARTIAL" /\ partial = 0
                  THEN RouteFrom(routes, method, path, i + 1, i)
             ELSE RouteFrom(routes, method, path, i + 1, partial)

NoResponse == [method |-> "none", path |-> <<>>, handler |-> "none", status |-> 0, body |-> "none"]
Answer(method, path, handler, status, body) ==
    [method |-> method, path |-> path, handler |-> handler, status |-> status, body |-> body]

\* the answer of the parent application to one request
Respond(parent, sub, method, path) ==
    LET r == RouteFrom(parent.routes, method, path, 1, 0)
    IN  IF r.match = "NONE" THEN Answer(method, path, "parent", 404, "not_found")
        ELSE IF r.match = "PARTIAL" THEN Answer(method, path, "parent", 405, "method_not_allowed")
        ELSE LET route == parent.routes[r.route]
             IN  IF route.endpoint = "health" THEN Answer(method, path, "health", 200, "ok_true")
                 ELSE IF route.endpoint = "debug_info" THEN Answer(method, path, "debug_info", 200, "debug")
                 ELSE IF route.endpoint = "mcp_info" THEN Answer(method, path, "mcp_info", 200, "info")
                 ELSE IF route.endpoint = "oauth_app" THEN Answer(method, path, "oauth_app", 200, "upstream")
                 ELSE IF path \in sub.served THEN Answer(method, path, "mcp_app", 200, "upstream")
                 ELSE Answer(method, path, "mcp_app", 404, "not_found")

(***************************************************************************)
(* Startup: the module-level code of main.py, one action per step          *)
(***************************************************************************)
Entry(level, msg) == [level |-> level, msg |-> msg]
NoCall == [filename |-> "none", result |-> NotFound]

\* the step `ev` ran; an uncaught exception `err` ends the startup
Raise(ev, err) ==
    /\ pc' = "aborted"
    /\ error' = err
    /\ stages' = stages \o <<ev, "abort">>

Proceed(ev, next) ==
    /\ pc' = next
    /\ stages' = Append(stages, ev)
    /\ UNCHANGED error

SetWorkingDirectory ==
    /\ pc = "start"
    /\ LET token_dir == GetOr(environ, "TOKEN_DIR", DefaultTokenDir)
       IN  \E makedirsOk \in BOOLEAN :
              IF makedirsOk /\ token_dir # <<>>
              THEN cwd' = token_dir /\ Proceed("SetWorkingDirectory", "cwd_set")
              ELSE UNCHANGED cwd /\ Raise("SetWorkingDirectory", "OSError")
    /\ UNCHANGED <<sysPath, files, environ, environ0, token_file, mcp_instance, mcp_app,
                   app, oauth_app, calls, log, sub_lifespan, response, find_result>>

ConfigureRedirectUri ==
    /\ pc = "cwd_set"
    /\ environ' = RedirectUriConfigured(environ)
    /\ Proceed("ConfigureRedirectUri", "redirect_set")
    /\ UNCHANGED <<sysPath, files, environ0, cwd, token_file, mcp_instance, mcp_app,
                   app, oauth_app, calls, log, sub_lifespan, response, find_result>>

ConfigureTokenStorage ==
    /\ pc = "redirect_set"
    /\ LET token_dir == GetOr(environ, "TOKEN_DIR", DefaultTokenDir)
           token_filename == GetOr(environ, "TOKEN_FILENAME", DefaultTokenFilename)
           token_path == PathJoin(token_dir, token_filename)
       IN  \E importOk \in BOOLEAN :
              IF importOk
              THEN /\ token_file' = token_path
                   /\ log' = Append(log, Entry("info", "token_storage_configured"))
              ELSE /\ UNCHANGED token_file
                   /\ log' = Append(log, Entry("warning", "token_storage_not_configured"))
    /\ Proceed("ConfigureTokenStorage", "configured")
    /\ UNCHANGED <<sysPath, files, environ, environ0, cwd, mcp_instance, mcp_app,
                   app, oauth_app, calls, sub_lifespan, response, find_result>>

\* _load_fastmcp, first statement: mcp_path = _find_upstream_file(...)
FindFastmcp ==
    /\ pc = "configured"
    /\ LET mcp_path == FindUpstreamFile(sysPath, files, McpFile)
       IN  /\ find_result' = [filename |-> McpFile, result |-> mcp_path]
           /\ IF mcp_path = NotFound
              THEN UNCHANGED log /\ Raise("FindFastmcp", "mcp_not_found")
              ELSE /\ log' = Append(log, Entry("info", "loading_fastmcp"))
                   /\ Proceed("FindFastmcp", "mcp_found")
    /\ UNCHANGED <<sysPath, files, environ, environ0, cwd, token_file, mcp_instance, mcp_app,
                   app, oauth_app, calls, sub_lifespan, response>>

\* the first searched name under which the module holds an object, 0 if none
RECURSIVE FirstInstanceFrom(_, _)
FirstInstanceFrom(module, i) ==
    IF i > Len(InstanceNames) THEN 0
    ELSE IF module[InstanceNames[i]] # NoneObj THEN i
    ELSE FirstInstanceFrom(module, i + 1)

\* _load_fastmcp, the rest: load the module and search it for the instance
LoadFastmcpModule ==
    /\ pc = "mcp_found"
    /\ \/ /\ Raise("LoadFastmcpModule", "mcp_load_failed")
          /\ UNCHANGED <<mcp_instance, log>>
       \/ \E module \in McpModules :
             LET i == FirstInstanceFrom(module, 1)
             IN  IF i = 0
                 THEN /\ Raise("LoadFastmcpModule", "mcp_no_instance")
                      /\ UNCHANGED <<mcp_instance, log>>
                 ELSE /\ mcp_instance' = module[InstanceNames[i]]
                      /\ log' = Append(log, Entry("info", "found_fastmcp_instance"))
                      /\ Proceed("LoadFastmcpModule", "mcp_loaded")
    /\ UNCHANGED <<sysPath, files, environ, environ0, cwd, token_file, mcp_app,
                   app, oauth_app, calls, sub_lifespan, response, find_result>>

\* a plausible slip: the legacy factory is preferred
SelectFactoryLegacyFirst(inst) ==
    IF "streamable_http_app" \in inst.attrs THEN "streamable_http_app"
    ELSE IF "http_app" \in inst.attrs THEN "http_app"
    ELSE IF DirectlyServable(inst) THEN "instance"
    ELSE "none"

\* the branch of _create_mcp_app taken for an instance
SelectFactory(inst) ==
    IF "http_app" \in inst.attrs THEN "http_app"
    ELSE IF "streamable_http_app" \in inst.attrs THEN "streamable_http_app"
    ELSE IF DirectlyServable(inst) THEN "instance"
    ELSE "none"

\* mcp_app = _create_mcp_app() inside the module-level try / except / raise
CreateMcpApp ==
    /\ pc = "mcp_loaded"
    /\ LET branch == SelectFactory(mcp_instance)
       IN  IF branch = "none"
           THEN /\ log' = Append(log, Entry("error", "failed_to_create_mcp_app"))
                /\ Raise("CreateMcpApp", "mcp_no_http_app")
                /\ UNCHANGED <<mcp_app, calls>>
           ELSE /\ calls' = IF branch = "instance" THEN calls
                            ELSE [calls EXCEPT ![branch] = @ + 1]
                /\ \/ /\ branch # "instance"
                      /\ log' = log \o <<Entry("info", branch), Entry("error", "failed_to_create_mcp_app")>>
                      /\ Raise("CreateMcpApp", "mcp_factory_raised")
                      /\ UNCHANGED mcp_app
                   \/ \E router \in RouterKinds, served \in SUBSET SubPaths :
                         /\ mcp_app' = SubApp(branch, router, served)
                         /\ log' = log \o <<Entry("info", branch), Entry("info", "mcp_app_created")>>
                         /\ Proceed("CreateMcpApp", "mcp_app_created")
    /\ UNCHANGED <<sysPath, files, environ, environ0, cwd, token_file, mcp_instance,
                   app, oauth_app, sub_lifespan, response, find_result>>

\* a plausible slip: the root mount is made when the parent is constructed
ConstructParentAppMountFirst ==
    /\ pc = "mcp_app_created"
    /\ app' = [constructed |-> TRUE, routes |-> <<RootMount>>]
    /\ pc' = "app_constructed"
    /\ stages' = stages \o <<"ConstructParentApp", "MountMcpApp">>
    /\ UNCHANGED <<sysPath, files, environ, environ0, cwd, token_file, error, mcp_instance, mcp_app,
                   oauth_app, calls, log, sub_lifespan, response, find_result>>

\* app = FastAPI(title=..., lifespan=lifespan)
ConstructParentApp ==
    /\ pc = "mcp_app_created"
    /\ app' = [constructed |-> TRUE, routes |-> <<>>]
    /\ Proceed("ConstructParentApp", "app_constructed")
    /\ UNCHANGED <<sysPath, files, environ, environ0, cwd, token_file, mcp_instance, mcp_app,
                   oauth_app, calls, log, sub_lifespan, response, find_result>>

\* @app.get("/health"), @app.get("/debug/info"), @app.get("/mcp/info")
RegisterParentRoutes ==
    /\ pc = "app_constructed"
    /\ app' = [app EXCEPT !.routes = @ \o <<HealthRoute, DebugInfoRoute, McpInfoRoute>>]
    /\ Proceed("RegisterParentRoutes", "routes_registered")
    /\ UNCHANGED <<sysPath, files, environ, environ0, cwd, token_file, mcp_instance, mcp_app,
                   oauth_app, calls, log, sub_lifespan, response, find_result>>

\* oauth_app = _load_oauth_app(): only the RuntimeError of the file search
\* is caught; what loading the file raises propagates
LoadOauthApp ==
    /\ pc = "routes_registered"
    /\ LET oauth_path == FindUpstreamFile(sysPath, files, OauthFile)
       IN  /\ find_result' = [filename |-> OauthFile, result |-> oauth_path]
           /\ IF oauth_path = NotFound
              THEN /\ oauth_app' = "None"
                   /\ Proceed("LoadOauthApp", "oauth_loaded")
              ELSE \/ /\ Raise("LoadOauthApp", "oauth_load_failed")
                      /\ UNCHANGED oauth_app
                   \/ /\ \E attr \in {"None", "app"} : oauth_app' = attr
                      /\ Proceed("LoadOauthApp", "oauth_loaded")
    /\ UNCHANGED <<sysPath, files, environ, environ0, cwd, token_file, mcp_instance, mcp_app,
                   app, calls, log, sub_lifespan, response>>

\* a plausible slip: the OAuth mount is made whether or not an app was found
MountOauthAppUnconditional ==
    /\ pc = "oauth_loaded"
    /\ app' = [app EXCEPT !.routes = Append(@, OauthMount)]
    /\ log' = Append(log, Entry("info", "oauth_mounted"))
    /\ Proceed("MountOauthApp", "oauth_done")
    /\ UNCHANGED <<sysPath, files, environ, environ0, cwd, token_file, mcp_instance, mcp_app,
                   oauth_app, calls, sub_lifespan, response, find_result>>

\* if oauth_app is not None: try app.mount("/oauth", WSGIMiddleware(oauth_app))
MountOauthApp ==
    /\ pc = "oauth_loaded"
    /\ IF oauth_app = "None"
       THEN UNCHANGED <<app, log>>
       ELSE \E mountOk \in BOOLEAN :
               IF mountOk
               THEN /\ app' = [app EXCEPT !.routes = Append(@, OauthMount)]
                    /\ log' = Append(log, Entry("info", "oauth_mounted"))
               ELSE /\ UNCHANGED app
                    /\ log' = Append(log, Entry("warning", "failed_to_mount_oauth"))
    /\ Proceed("MountOauthApp", "oauth_done")
    /\ UNCHANGED <<sysPath, files, environ, environ0, cwd, token_file, mcp_instance, mcp_app,
                   oauth_app, calls, sub_lifespan, response, find_result>>

\* try: app.mount("/", mcp_app) except: log and raise
MountMcpApp ==
    /\ pc = "oauth_done"
    /\ \E mountOk \in BOOLEAN :
          IF mountOk
          THEN /\ app' = [app EXCEPT !.routes = Append(@, RootMount)]
               /\ log' = Append(log, Entry("info", "mcp_mounted"))
               /\ Proceed("MountMcpApp", "done")
          ELSE /\ UNCHANGED app
               /\ log' = Append(log, Entry("error", "failed_to_mount_mcp"))
               /\ Raise("MountMcpApp", "mcp_mount_failed")
    /\ UNCHANGED <<sysPath, files, environ, environ0, cwd, token_file, mcp_instance, mcp_app,
                   oauth_app, calls, sub_lifespan, response, find_result>>

(***************************************************************************)
(* Serving: the ASGI server runs the parent's lifespan around the requests *)
(***************************************************************************)
\* lifespan(app) up to its yield
LifespanStartup ==
    /\ pc = "done"
    /\ IF HasLifespanHook(mcp_app)
       THEN \/ /\ sub_lifespan' = [sub_lifespan EXCEPT !.entered = @ + 1]
               /\ pc' = "serving"
            \/ /\ UNCHANGED sub_lifespan
               /\ pc' = "lifespan_failed"
       ELSE /\ UNCHANGED sub_lifespan
            /\ pc' = "serving"
    /\ UNCHANGED <<sysPath, files, environ, environ0, cwd, token_file, error, mcp_instance, mcp_app,
                   app, oauth_app, calls, log, stages, response, find_result>>

HandleRequest ==
    /\ pc = "serving"
    /\ \E method \in Methods, path \in ReqPaths :
          response' = Respond(app, mcp_app, method, path)
    /\ UNCHANGED <<sysPath, files, environ, environ0, cwd, token_file, pc, error, mcp_instance,
                   mcp_app, app, oauth_app, calls, log, stages, sub_lifespan, find_result>>

\* lifespan(app) after its yield
LifespanShutdown ==
    /\ pc = "serving"
    /\ sub_lifespan' = IF HasLifespanHook(mcp_app)
                       THEN [sub_lifespan EXCEPT !.exited = @ + 1]
                       ELSE sub_lifespan
    /\ pc' = "stopped"
    /\ UNCHANGED <<sysPath, files, environ, environ0, cwd, token_file, error, mcp_instance, mcp_app,
                   app, oauth_app, calls, log, stages, response, find_result>>

(***************************************************************************)
(* Specifications                                                          *)
(***************************************************************************)
Fresh ==
    /\ environ0 = environ
    /\ cwd = <<"/">>
    /\ token_file = <<>>
    /\ pc = "start"
    /\ error = "none"
    /\ mcp_instance = NoneObj
    /\ mcp_app = NoSubApp
    /\ app = NoApp
    /\ oauth_app = "None"
    /\ calls = [http_app |-> 0, streamable_http_app |-> 0]
    /\ log = <<>>
    /\ stages = <<>>
    /\ sub_lifespan = [entered |-> 0, exited |-> 0]
    /\ response = NoResponse
    /\ find_result = NoCall

EnvOf(redirect, base, dir, name) ==
    [n \in EnvNames |-> CASE n = "BASECAMP_REDIRECT_URI" -> redirect
                          [] n = "PUBLIC_BASE_URL" -> base
                          [] n = "TOKEN_DIR" -> dir
                          [] n = "TOKEN_FILENAME" -> name]

\* a whole run of the process: startup, then serving.  Startup depends on
\* the search list only through whether each of the two files is found, so
\* one search root with any of its files present is taken here; the order
\* of the search is examined under SpecFind.
Init ==
    /\ sysPath = <<1>>
    /\ files \in SUBSET {c \in AllCandidates : c.root = 1}
    /\ environ \in {EnvOf(Unset, Val(<<"a", "/">>), Unset, Unset),
                    EnvOf(Val(<<"a">>), Unset, Val(<<"a">>), Val(<<"a">>))}
    /\ Fresh

Next ==
    \/ SetWorkingDirectory
    \/ ConfigureRedirectUri
    \/ ConfigureTokenStorage
    \/ FindFastmcp
    \/ LoadFastmcpModule
    \/ CreateMcpApp
    \/ ConstructParentApp
    \/ RegisterParentRoutes
    \/ LoadOauthApp
    \/ MountOauthApp
    \/ MountMcpApp
    \/ LifespanStartup
    \/ HandleRequest
    \/ LifespanShutdown

Spec == Init /\ [][Next]_vars

\* calls of _find_upstream_file alone, for any sys.path and any set of files
AllUnset == [n \in EnvNames |-> Unset]

InitFind ==
    /\ sysPath \in SeqsUpTo(Roots, MaxRoots)
    /\ files \in SUBSET AllCandidates
    /\ environ = AllUnset
    /\ Fresh

FindUpstreamFileCall ==
    /\ pc = "start"
    /\ \E filename \in FileNames :
          find_result' = [filename |-> filename,
                          result |-> FindUpstreamFile(sysPath, files, filename)]
    /\ UNCHANGED <<sysPath, files, environ, environ0, cwd, token_file, pc, error, mcp_instance,
                   mcp_app, app, oauth_app, calls, log, stages, sub_lifespan, response>>

NextFind == FindUpstreamFileCall

SpecFind == InitFind /\ [][NextFind]_vars

\* the configuration calls alone, for any environment
InitConfigure ==
    /\ sysPath = <<>>
    /\ files = {}
    /\ environ \in {EnvOf(r, b, d, Unset) :
                      r \in {Unset, Val(<<>>), Val(<<"a">>)},
                      b \in {Unset} \cup {Val(u) : u \in SeqsUpTo(Chars, MaxUrlLen)},
                      d \in {Unset, Val(<<>>), Val(<<"a", "/">>)}}
    /\ Fresh

NextConfigure ==
    \/ SetWorkingDirectory
    \/ ConfigureRedirectUri
    \/ ConfigureTokenStorage

SpecConfigure == InitConfigure /\ [][NextConfigure]_vars

(***************************************************************************)
(* Properties                                                              *)
(***************************************************************************)
Ran(ev) == \E i \in DOMAIN stages : stages[i] = ev
StartupComplete == pc \in {"done", "serving", "stopped", "lifespan_failed"}
Positions(route) == {i \in DOMAIN app.routes : app.routes[i] = route}
UnderOauth(path) == Len(path) > 1 /\ path[1] = "oauth"
OauthFileAbsent ==
    \A c \in files : c.name = OauthFile => \A i \in DOMAIN sysPath : sysPath[i] # c.root
McpFileAbsent ==
    \A c \in files : c.name = McpFile => \A i \in DOMAIN sysPath : sysPath[i] # c.root
Shapeless(inst) ==
    /\ inst.defined
    /\ "http_app" \notin inst.attrs
    /\ "streamable_http_app" \notin inst.attrs
    /\ ~("__call__" \in inst.attrs /\ "routes" \in inst.attrs)

\* C1: when basecamp_fastmcp.py is in no search root, or loading it raises,
\* or the module holds no instance under 'mcp', 'server' or 'app', or the
\* instance has no http_app, no streamable_http_app and is not itself
\* servable, startup is aborted with an error and the parent application
\* is never constructed: it has no route and no mount in any later state.
C1_McpFailureAbortsBeforeParent ==
    /\ (McpFileAbsent /\ Ran("FindFastmcp")) => (pc = "aborted" /\ error = "mcp_not_found")
    /\ (Shapeless(mcp_instance) /\ Ran("CreateMcpApp")) => (pc = "aborted" /\ error = "mcp_no_http_app")
    /\ (McpFileAbsent \/ Shapeless(mcp_instance)
          \/ error \in {"mcp_not_found", "mcp_load_failed", "mcp_no_instance", "mcp_no_http_app"})
       => (app = NoApp /\ ~StartupComplete)
    /\ error \in {"mcp_not_found", "mcp_load_failed", "mcp_no_instance", "mcp_no_http_app"}
       => pc = "aborted"

C1_Witness ==
    /\ pc = "aborted"
    /\ error = "mcp_no_http_app"
    /\ mcp_instance.attrs = {"routes"}
    /\ app = NoApp

\* C2: once startup has completed, GET /health is answered by the parent's
\* health route with {"ok": true} and never by the sub-application mounted
\* at "/", also when that sub-application has a /health route of its own;
\* the health route precedes the root mount, and there is exactly one root
\* mount.
C2_HealthNotShadowed ==
    StartupComplete =>
        /\ Cardinality(Positions(RootMount)) = 1
        /\ Cardinality(Positions(HealthRoute)) = 1
        /\ \A h \in Positions(HealthRoute), m \in Positions(RootMount) : h < m
        /\ (response.method = "GET" /\ response.path = <<"health">>)
           => (response.handler = "health" /\ response.status = 200 /\ response.body = "ok_true")

C2_Witness ==
    /\ pc = "serving"
    /\ <<"health">> \in mcp_app.served
    /\ response.method = "GET"
    /\ response.path = <<"health">>
    /\ response.handler = "health"

\* C3: when the sub-application has router.lifespan_context, the parent's
\* lifespan has entered it exactly once whenever the parent serves, and has
\* exited it exactly once when the parent has shut down; when it has no
\* such hook, the hook is never entered or exited.
C3_LifespanPropagated ==
    /\ sub_lifespan.entered <= 1
    /\ sub_lifespan.exited <= sub_lifespan.entered
    /\ (mcp_app.router = "lifespan" /\ pc = "serving")
       => (sub_lifespan.entered = 1 /\ sub_lifespan.exited = 0)
    /\ (mcp_app.router = "lifespan" /\ pc = "stopped")
       => (sub_lifespan.entered = 1 /\ sub_lifespan.exited = 1)
    /\ (mcp_app.router = "lifespan" /\ response # NoResponse) => sub_lifespan.entered = 1
    /\ mcp_app.router # "lifespan"
       => (sub_lifespan.entered = 0 /\ sub_lifespan.exited = 0)
    /\ pc \notin {"serving", "stopped"} => sub_lifespan.entered = 0

C3_Witness ==
    /\ pc = "stopped"
    /\ mcp_app.router = "lifespan"
    /\ response # NoResponse
    /\ sub_lifespan = [entered |-> 1, exited |-> 1]

\* C4: whatever the OAuth step does (file not found, loading it raises, no
\* 'app' attribute, mounting raises), it does not abort startup: once the
\* OAuth step has run, only the root mount of the MCP sub-application can
\* still fail.
C4_OauthNeverAbortsStartup ==
    Ran("LoadOauthApp") =>
        /\ error # "oauth_load_failed"
        /\ pc = "aborted" => error = "mcp_mount_failed"

\* C5 as stated: with oauth_app.py in no search root, nothing is registered
\* for the /oauth prefix and every request under /oauth/ is answered
\* not-found.
C5_OauthAbsentNotFound ==
    (OauthFileAbsent /\ StartupComplete) =>
        /\ Positions(OauthMount) = {}
        /\ UnderOauth(response.path) => response.status = 404

\* C5 amended: with oauth_app.py in no search root, the OAuth step does not
\* abort startup (after it only the root mount of the MCP sub-application
\* can still fail) and yields no app, the parent registers no route and no
\* mount for the /oauth prefix, and every request under /oauth/ is handed to
\* the MCP sub-application mounted at "/": it is answered not-found unless
\* that sub-application has a route of its own for the path.
C5_OauthAbsentFallsThrough ==
    OauthFileAbsent =>
        /\ Ran("LoadOauthApp") => (error \in {"none", "mcp_mount_failed"} /\ oauth_app = "None")
        /\ \A i \in DOMAIN app.routes : app.routes[i].path = <<>> \/ app.routes[i].path[1] # "oauth"
        /\ pc = "oauth_done" => Len(app.routes) = 3
        /\ UnderOauth(response.path)
           => /\ response.handler = "mcp_app"
              /\ response.status = IF response.path \in mcp_app.served THEN 200 ELSE 404

C5_Witness ==
    /\ OauthFileAbsent
    /\ pc = "serving"
    /\ response.path = <<"oauth", "cb">>
    /\ response.status = 404

\* C6: an instance with http_app has http_app called exactly once and
\* streamable_http_app never; streamable_http_app is called (once) only for
\* an instance without http_app; the instance itself becomes the
\* sub-application only when it has neither.
C6_ModernFactoryPreferred ==
    LET has(f) == f \in mcp_instance.attrs
    IN  /\ ~Ran("CreateMcpApp") => (calls.http_app = 0 /\ calls.streamable_http_app = 0)
        /\ (Ran("CreateMcpApp") /\ has("http_app"))
           => (calls.http_app = 1 /\ calls.streamable_http_app = 0)
        /\ (Ran("CreateMcpApp") /\ ~has("http_app") /\ has("streamable_http_app"))
           => (calls.http_app = 0 /\ calls.streamable_http_app = 1)
        /\ (Ran("CreateMcpApp") /\ ~has("http_app") /\ ~has("streamable_http_app"))
           => (calls.http_app = 0 /\ calls.streamable_http_app = 0)
        /\ mcp_app.defined =>
              mcp_app.origin = IF has("http_app") THEN "http_app"
                               ELSE IF has("streamable_http_app") THEN "streamable_http_app"
                               ELSE "instance"

C6_Witness ==
    /\ {"http_app", "streamable_http_app"} \subseteq mcp_instance.attrs
    /\ mcp_app.origin = "http_app"
    /\ calls = [http_app |-> 1, streamable_http_app |-> 0]

\* C7: _find_upstream_file returns the match in the earliest entry of the
\* search list that has one, the direct path before the path in the
\* 'Basecamp-MCP-Server' subdirectory; a single existing match is returned
\* whatever the order of the list; it fails exactly when no entry has a
\* match at either place.
C7_FirstMatchWins ==
    find_result # NoCall =>
        LET f == find_result.filename
            r == find_result.result
            direct(i) == Candidate(sysPath[i], "", f)
            fallback(i) == Candidate(sysPath[i], FallbackDir, f)
            hit(i) == direct(i) \in files \/ fallback(i) \in files
            matches == {c \in files : c.name = f /\ \E i \in DOMAIN sysPath : sysPath[i] = c.root}
        IN  /\ r = NotFound <=> matches = {}
            /\ r # NotFound =>
                  \E i \in DOMAIN sysPath :
                     /\ hit(i)
                     /\ \A j \in 1..(i - 1) : ~hit(j)
                     /\ r = IF direct(i) \in files THEN direct(i) ELSE fallback(i)
            /\ Cardinality(matches) = 1 => r \in matches

C7_Witness ==
    /\ find_result.filename = McpFile
    /\ Len(sysPath) = 2
    /\ sysPath[1] # sysPath[2]
    /\ find_result.result = Candidate(sysPath[2], "", McpFile)
    /\ Candidate(sysPath[2], FallbackDir, McpFile) \in files

\* the value with every trailing "/" of b removed, followed by the suffix
DerivedFrom(b, v) ==
    \E n \in 0..Len(b) :
       /\ n > 0 => b[n] # "/"
       /\ \A i \in (n + 1)..Len(b) : b[i] = "/"
       /\ v = SubSeq(b, 1, n) \o CallbackSuffix

StageOf(ev) ==
    CASE ev \in {"SetWorkingDirectory", "ConfigureRedirectUri", "ConfigureTokenStorage"} -> "configure"
      [] ev = "FindFastmcp" -> "resolve"
      [] ev = "LoadFastmcpModule" -> "load"
      [] ev \in {"CreateMcpApp", "ConstructParentApp", "RegisterParentRoutes"} -> "compose"
      [] ev \in {"LoadOauthApp", "MountOauthApp", "MountMcpApp"} -> "mount"
      [] OTHER -> "abort"
InOrder(rank) ==
    \A i, j \in DOMAIN stages :
       (i < j /\ stages[i] # "abort" /\ stages[j] # "abort")
       => rank[StageOf(stages[i])] <= rank[StageOf(stages[j])]
AbortIsLast ==
    /\ \A i \in DOMAIN stages : stages[i] = "abort" => i = Len(stages)
    /\ error # "none" <=> (stages # <<>> /\ stages[Len(stages)] = "abort")
    /\ error # "none" <=> pc = "aborted"

====
